---- MODULE Spec2Model ----
(***************************************************************************)
(* Tag registry and consolidation engine of raindrop_classifier:           *)
(*   classify.js              TagManager (normalizeTag, levenshteinDistance,*)
(*                            findSimilarTags, addTag, processAITags,       *)
(*                            loadTags, saveTags), classifyBookmark,        *)
(*                            updateBookmark and main                       *)
(*   cleanup-existing-tags.js extractAllTags, shouldRunCleanup,             *)
(*                            analyzeTagGroups, createTagMapping,           *)
(*                            updateBookmarksWithCleanTags, saveTagRegistry *)
(*                            and main                                      *)
(*                                                                         *)
(* A JavaScript string is a sequence of one-character strings.  A plain    *)
(* JavaScript object is a sequence of entries [k, v] in insertion order;   *)
(* OwnKeys gives the order in which the language enumerates them.          *)
(***************************************************************************)
EXTENDS Integers, Sequences, FiniteSets, TLC

VARIABLES
    raw,            \* normalizer check: the raw string handed to normalizeTag
    out,            \* normalizer check: <<normalizeTag(raw), normalizeTag of that>>
    registry,       \* TagManager.registry of the classify.js process
    registryFile,   \* tag-registry.json: <<>> when absent, else <<text>>
    metricsFile,    \* tag-metrics.json: <<>> when absent, else <<history>>
    now,            \* the clock read by new Date()
    pc,             \* position of the main that is running, "idle" between runs
    bookmarks,      \* main: the fetched bookmarks (each a list of tags)
    corpus,         \* main: [uniqueTags, tagUsage] from extractAllTags
    gate,           \* main: what shouldRunCleanup returned, with its metrics
    groups,         \* main: consolidationGroups from analyzeTagGroups
    ops,            \* classifyBookmark calls and cleanup runs started so far
    call,           \* the last operation: its name, arguments, pre-state, result
    fileKind,       \* what the text of each file is: "json", "notArray", "notJSON"
    events,         \* the current run: its calls to collaborators and files, in order
    left            \* items or batches the loop of the current run has not reached

vars == <<raw, out, registry, registryFile, metricsFile, now, pc, bookmarks,
          corpus, gate, groups, ops, call, fileKind, events, left>>

(***************************************************************************)
(* Bounds of the model                                                     *)
(***************************************************************************)
MaxTail == 3        \* free characters of a raw string handed to normalizeTag
MaxOps == 3         \* classifyBookmark calls and cleanup runs in one behaviour
MaxRuns == 2        \* cleanup runs in one behaviour of the health-gate check
MaxCorpusTags == 11 \* unique tags of a generated corpus
MaxKeyLen == 3      \* characters of a key handed to the similarity on its own
MaxItemTags == 3    \* tags of the item handed to the mapping on its own

(***************************************************************************)
(* Program constants                                                       *)
(***************************************************************************)
MaxTagLen == 50     \* .substring(0, 50)

\* findSimilarTags(tag, threshold = 0.8): fractions are [num, den]
DefaultThreshold == [num |-> 4, den |-> 5]

METRIC_THRESHOLDS ==
    [growthRate |-> [num |-> 1, den |-> 10],
     newTagRatio |-> [num |-> 3, den |-> 20],
     singleUseRatio |-> [num |-> 3, den |-> 10],
     entropy |-> 3]

(***************************************************************************)
(* Strings                                                                 *)
(***************************************************************************)
Min(a, b) == IF a <= b THEN a ELSE b
Max(a, b) == IF a >= b THEN a ELSE b

Rep(c, n) == [i \in 1..n |-> c]

LowerLetters == {"a", "b", "c", "d", "e", "f", "g", "h", "i", "j", "k", "l", "m",
                 "n", "o", "p", "q", "r", "s", "t", "u", "v", "w", "x", "y", "z"}
Digits == {"0", "1", "2", "3", "4", "5", "6", "7", "8", "9"}
Whitespace == {" "}

\* String.prototype.toLowerCase on one character
LowerChar(c) ==
    CASE c = "A" -> "a"
      [] c = "C" -> "c"
      [] c = "J" -> "j"
      [] c = "S" -> "s"
      [] OTHER -> c

toLowerCase(s) == [i \in 1..Len(s) |-> LowerChar(s[i])]

\* [a-z0-9\s&-]
InClass(c) == c \in LowerLetters \cup Digits \cup Whitespace \cup {"&", "-"}

\* .replace(/[^a-z0-9\s&-]/g, '')
StripDisallowed(s) == SelectSeq(s, InClass)

Kept(c) == c # ""

\* .replace(/\s+/g, '-'): the last character of each run of whitespace becomes
\* the hyphen, the ones before it go
CollapseWhitespace(s) ==
    SelectSeq([i \in 1..Len(s) |->
                  IF s[i] \notin Whitespace THEN s[i]
                  ELSE IF i < Len(s) /\ s[i + 1] \in Whitespace THEN "" ELSE "-"],
              Kept)

RECURSIVE DropLeadingHyphens(_)
DropLeadingHyphens(s) ==
    IF s # <<>> /\ Head(s) = "-" THEN DropLeadingHyphens(Tail(s)) ELSE s

RECURSIVE DropTrailingHyphens(_)
DropTrailingHyphens(s) ==
    IF s # <<>> /\ s[Len(s)] = "-"
    THEN DropTrailingHyphens(SubSeq(s, 1, Len(s) - 1))
    ELSE s

\* .replace(/^-+|-+$/g, '')
TrimHyphens(s) == DropTrailingHyphens(DropLeadingHyphens(s))

\* .substring(0, n)
Substring0(s, n) == SubSeq(s, 1, Min(Len(s), n))

normalizeTag(tag) ==
    Substring0(TrimHyphens(CollapseWhitespace(StripDisallowed(toLowerCase(tag)))),
               MaxTagLen)

(***************************************************************************)
(* Inputs of the normalizer check: every string of at most MaxTail         *)
(* characters of NormAlphabet, alone or after a run of "a" that ends       *)
(* within MaxTail characters of the length cap.                            *)
(***************************************************************************)
NormAlphabet == {"A", "a", "1", " ", "-", "&", "!"}

Tails == UNION {[1..n -> NormAlphabet] : n \in 0..MaxTail}

Pads == {0} \cup {MaxTagLen - d : d \in 1..MaxTail}

RawInputs == {Rep("a", p) \o t : p \in Pads, t \in Tails}

(***************************************************************************)
(* Plain JavaScript objects                                                *)
(***************************************************************************)
EmptyObj == <<>>

Keys(o) == [i \in 1..Len(o) |-> o[i].k]

Has(o, key) == \E i \in 1..Len(o) : o[i].k = key

Get(o, key) == o[CHOOSE i \in 1..Len(o) : o[i].k = key].v

\* o[key] = v: an existing property keeps its place, a new one goes last
Put(o, key, v) ==
    IF Has(o, key)
    THEN [i \in 1..Len(o) |-> IF o[i].k = key THEN [k |-> key, v |-> v] ELSE o[i]]
    ELSE Append(o, [k |-> key, v |-> v])

DigitVal(c) ==
    CASE c = "0" -> 0 [] c = "1" -> 1 [] c = "2" -> 2 [] c = "3" -> 3
      [] c = "4" -> 4 [] c = "5" -> 5 [] c = "6" -> 6 [] c = "7" -> 7
      [] c = "8" -> 8 [] c = "9" -> 9 [] OTHER -> 0 - 1

\* lexicographic order of two digit strings of the same length
RECURSIVE DigitsLess(_, _)
DigitsLess(a, b) ==
    IF a = <<>> THEN FALSE
    ELSE IF DigitVal(Head(a)) # DigitVal(Head(b))
         THEN DigitVal(Head(a)) < DigitVal(Head(b))
         ELSE DigitsLess(Tail(a), Tail(b))

\* numeric order of two canonical numeric strings
NumLess(a, b) == Len(a) < Len(b) \/ (Len(a) = Len(b) /\ DigitsLess(a, b))

MaxArrayIndex == <<"4", "2", "9", "4", "9", "6", "7", "2", "9", "4">>

\* an integer-like key: a canonical numeric string below 2^32 - 1
IsArrayIndex(key) ==
    /\ key # <<>>
    /\ \A i \in 1..Len(key) : key[i] \in Digits
    /\ (Len(key) = 1 \/ key[1] # "0")
    /\ ~NumLess(MaxArrayIndex, key)

RECURSIVE InsertNum(_, _)
InsertNum(sorted, key) ==
    IF sorted = <<>> THEN <<key>>
    ELSE IF NumLess(key, Head(sorted)) THEN <<key>> \o sorted
         ELSE <<Head(sorted)>> \o InsertNum(Tail(sorted), key)

RECURSIVE SortNum(_)
SortNum(ks) == IF ks = <<>> THEN <<>> ELSE InsertNum(SortNum(Tail(ks)), Head(ks))

NotArrayIndex(key) == ~IsArrayIndex(key)

\* the order of for-in, Object.keys and JSON.stringify: integer-like keys in
\* ascending numeric order, then the other keys in insertion order
OwnKeys(o) ==
    SortNum(SelectSeq(Keys(o), IsArrayIndex)) \o SelectSeq(Keys(o), NotArrayIndex)

\* the properties every plain object inherits from Object.prototype, among the
\* strings normalizeTag can return (toString, valueOf, hasOwnProperty, __proto__
\* and the rest hold a character outside [a-z0-9&-])
ObjectPrototypeKeys == {<<"c", "o", "n", "s", "t", "r", "u", "c", "t", "o", "r">>}

\* the truth value of o[key]: every value the programs store is an object
Truthy(o, key) == Has(o, key) \/ key \in ObjectPrototypeKeys

\* JSON.stringify: the properties in enumeration order
JSONStringifyObj(o) ==
    LET ks == OwnKeys(o) IN [i \in 1..Len(ks) |-> [k |-> ks[i], v |-> Get(o, ks[i])]]

\* JSON.parse: the properties are created in the order of the text
RECURSIVE JSONParseObj(_)
JSONParseObj(text) ==
    IF text = <<>> THEN EmptyObj
    ELSE LET e == text[Len(text)]
         IN Put(JSONParseObj(SubSeq(text, 1, Len(text) - 1)), e.k, e.v)

JSONStringify(reg) ==
    [tags |-> JSONStringifyObj(reg.tags),
     aliases |-> JSONStringifyObj(reg.aliases),
     lastUpdated |-> reg.lastUpdated]

JSONParse(text) ==
    [tags |-> JSONParseObj(text.tags),
     aliases |-> JSONParseObj(text.aliases),
     lastUpdated |-> text.lastUpdated]

(***************************************************************************)
(* TagManager (classify.js)                                                *)
(***************************************************************************)
\* constructor
NewRegistry(t) == [tags |-> EmptyObj, aliases |-> EmptyObj, lastUpdated |-> t]

Min3(a, b, c) == Min(a, Min(b, c))

\* the row with a step down the matrix (matrix[j - 1][i] + 1) counted twice
RECURSIVE FillRowCostlyStep(_, _, _, _, _)
FillRowCostlyStep(str1, ch2, prev, acc, i) ==
    IF i > Len(str1) THEN acc
    ELSE LET cost == IF str1[i] = ch2 THEN 0 ELSE 1
             cell == Min3(acc[i] + 1, prev[i + 1] + 2, prev[i] + cost)
         IN IF cell >= 0
            THEN FillRowCostlyStep(str1, ch2, prev, Append(acc, cell), i + 1)
            ELSE acc

\* row j of the matrix from row j - 1: acc holds matrix[j][0..i-1]
RECURSIVE FillRow(_, _, _, _, _)
FillRow(str1, ch2, prev, acc, i) ==
    IF i > Len(str1) THEN acc
    ELSE LET cost == IF str1[i] = ch2 THEN 0 ELSE 1
             cell == Min3(acc[i] + 1, prev[i + 1] + 1, prev[i] + cost)
         IN IF cell >= 0 THEN FillRow(str1, ch2, prev, Append(acc, cell), i + 1)
            ELSE acc

RECURSIVE FillMatrix(_, _, _, _)
FillMatrix(str1, str2, prev, j) ==
    IF j > Len(str2) THEN prev
    ELSE LET row == FillRow(str1, str2[j], prev, <<j>>, 1)
         IN IF Len(row) > 0 THEN FillMatrix(str1, str2, row, j + 1) ELSE row

levenshteinDistance(str1, str2) ==
    FillMatrix(str1, str2, [i \in 1..(Len(str1) + 1) |-> i - 1], 1)[Len(str1) + 1]

\* similarity = 1 - distance / maxLen as the fraction num / den; den = 0 is NaN
Similarity(a, b) ==
    LET maxLen == Max(Len(a), Len(b))
    IN [num |-> maxLen - levenshteinDistance(a, b), den |-> maxLen]

\* similarity >= threshold; NaN compares false
SimAtLeast(s, threshold) == s.den > 0 /\ s.num * threshold.den >= threshold.num * s.den

\* b.similarity - a.similarity > 0
SimGreater(b, a) == b.num * a.den > a.num * b.den

\* Array.prototype.sort with (a, b) => b.similarity - a.similarity: stable
RECURSIVE InsertBySim(_, _)
InsertBySim(sorted, x) ==
    IF sorted = <<>> THEN <<x>>
    ELSE IF SimGreater(x.similarity, Head(sorted).similarity) THEN <<x>> \o sorted
         ELSE <<Head(sorted)>> \o InsertBySim(Tail(sorted), x)

RECURSIVE SortBySim(_)
SortBySim(xs) ==
    IF xs = <<>> THEN <<>>
    ELSE InsertBySim(SortBySim(SubSeq(xs, 1, Len(xs) - 1)), xs[Len(xs)])

\* findSimilarTags comparing the tag as handed in, not normalized again
findSimilarTagsAsGiven(reg, tag, threshold) ==
    LET normalizedTag == tag
        ks == OwnKeys(reg.tags)
        scored == [i \in 1..Len(ks) |->
                      [tag |-> ks[i], similarity |-> Similarity(normalizedTag, ks[i])]]
        Similar(x) == SimAtLeast(x.similarity, threshold) /\ normalizedTag # x.tag
    IN SortBySim(SelectSeq(scored, Similar))

findSimilarTags(reg, tag, threshold) ==
    LET normalizedTag == normalizeTag(tag)
        ks == OwnKeys(reg.tags)
        scored == [i \in 1..Len(ks) |->
                      [tag |-> ks[i], similarity |-> Similarity(normalizedTag, ks[i])]]
        Similar(x) == SimAtLeast(x.similarity, threshold) /\ normalizedTag # x.tag
    IN SortBySim(SelectSeq(scored, Similar))

NoVariants == <<>>

\* returns the registry after the call and the value returned
addTag(reg, tag, category, t) ==
    LET normalizedTag == normalizeTag(tag)
    IN IF normalizedTag = <<>> THEN [registry |-> reg, result |-> normalizedTag]
       ELSE IF Has(reg.tags, normalizedTag)
       THEN LET rec == Get(reg.tags, normalizedTag)
            IN [registry |-> [reg EXCEPT !.tags =
                                 Put(@, normalizedTag,
                                     [rec EXCEPT !.usageCount = @ + 1])],
                result |-> normalizedTag]
       ELSE IF Truthy(reg.tags, normalizedTag)
       THEN \* usageCount++ lands on the inherited object, not on the registry
            [registry |-> reg, result |-> normalizedTag]
       ELSE [registry |-> [reg EXCEPT !.tags =
                              Put(@, normalizedTag,
                                  [category |-> category, usageCount |-> 1,
                                   firstUsed |-> t, variants |-> NoVariants])],
             result |-> normalizedTag]

\* one turn of the loop of processAITags
ProcessTag(reg, tag, category, t) ==
    LET normalizedTag == normalizeTag(tag)
    IN IF normalizedTag = <<>> THEN [registry |-> reg, result |-> <<>>]
       ELSE IF Truthy(reg.tags, normalizedTag)
       THEN addTag(reg, normalizedTag, category, t)
       ELSE LET similarTags == findSimilarTags(reg, normalizedTag, DefaultThreshold)
            IN IF Len(similarTags) > 0
               THEN addTag(reg, similarTags[1].tag, category, t)
               ELSE addTag(reg, normalizedTag, category, t)

NonEmpty(s) == s # <<>>

RECURSIVE ProcessLoop(_, _, _, _, _)
ProcessLoop(reg, aiTags, category, t, processedTags) ==
    IF aiTags = <<>>
    THEN [registry |-> reg, result |-> SelectSeq(processedTags, NonEmpty)]
    ELSE LET r == ProcessTag(reg, Head(aiTags), category, t)
         IN ProcessLoop(r.registry, Tail(aiTags), category, t,
                        IF normalizeTag(Head(aiTags)) = <<>>
                        THEN processedTags
                        ELSE Append(processedTags, r.result))

processAITags(reg, aiTags, category, t) == ProcessLoop(reg, aiTags, category, t, <<>>)

\* saveTags: the registry as left in memory and the text written
saveTags(reg, t) ==
    LET saved == [reg EXCEPT !.lastUpdated = t]
    IN [registry |-> saved, file |-> <<JSONStringify(saved)>>]

\* loadTags: a missing file (ENOENT) is created from the registry in memory;
\* a text that JSON.parse rejects is reported on the console and the registry
\* in memory stays as it is
loadTags(reg, file, kind, t) ==
    IF file = <<>> THEN saveTags(reg, t)
    ELSE IF kind = "notJSON" THEN [registry |-> reg, file |-> file]
    ELSE [registry |-> JSONParse(file[1]), file |-> file]

(***************************************************************************)
(* cleanup-existing-tags.js                                                *)
(***************************************************************************)
\* a Map or Set in insertion order, as a sequence of entries
MapSet(m, key, v) == Put(m, key, v)

MapGetOr0(m, key) == IF Has(m, key) THEN Get(m, key) ELSE 0

RECURSIVE CountTags(_, _)
CountTags(tags, tagUsage) ==
    IF tags = <<>> THEN tagUsage
    ELSE CountTags(Tail(tags), MapSet(tagUsage, Head(tags), MapGetOr0(tagUsage, Head(tags)) + 1))

RECURSIVE CountBookmarks(_, _)
CountBookmarks(bs, tagUsage) ==
    IF bs = <<>> THEN tagUsage
    ELSE CountBookmarks(Tail(bs), CountTags(Head(bs).tags, tagUsage))

extractAllTags(bs) ==
    LET tagUsage == CountBookmarks(bs, <<>>)
    IN [uniqueTags |-> Keys(tagUsage), tagUsage |-> tagUsage]

RECURSIVE SumSeq(_)
SumSeq(s) == IF s = <<>> THEN 0 ELSE Head(s) + SumSeq(Tail(s))

Values(m) == [i \in 1..Len(m) |-> m[i].v]

RECURSIVE Gcd(_, _)
Gcd(a, b) == IF b = 0 THEN a ELSE Gcd(b, a % b)

\* Math.log2 in millionths, rounded down; exact at the powers of two
Log2Micro ==
    <<0, 1000000, 1584962, 2000000, 2321928, 2584962, 2807354, 3000000,
      3169925, 3321928, 3459431, 3584962, 3700439, 3807354, 3906890, 4000000,
      4087462, 4169925, 4247927, 4321928, 4392317, 4459431, 4523561, 4584962,
      4643856, 4700439, 4754887, 4807354, 4857980, 4906890, 4954196, 5000000,
      5044394, 5087462, 5129283, 5169925, 5209453, 5247927, 5285402, 5321928,
      5357552, 5392317, 5426264, 5459431, 5491853, 5523561, 5554588, 5584962,
      5614709, 5643856, 5672425, 5700439, 5727920, 5754887, 5781359, 5807354,
      5832890, 5857980, 5882643, 5906890, 5930737, 5954196, 5977279, 6000000,
      6022367, 6044394, 6066089, 6087462, 6108524, 6129283, 6149747, 6169925,
      6189824, 6209453, 6228818, 6247927, 6266786, 6285402, 6303780, 6321928,
      6339850, 6357552, 6375039, 6392317, 6409390, 6426264, 6442943, 6459431,
      6475733, 6491853, 6507794, 6523561, 6539158, 6554588, 6569855, 6584962,
      6599912, 6614709, 6629356, 6643856, 6658211, 6672425, 6686500, 6700439,
      6714245, 6727920, 6741466, 6754887, 6768184, 6781359, 6794415, 6807354,
      6820178, 6832890, 6845490, 6857980, 6870364, 6882643, 6894817, 6906890,
      6918863, 6930737, 6942514, 6954196, 6965784, 6977279, 6988684, 7000000>>

Log2Lo(n) == Log2Micro[n]

Log2Hi(n) == IF n \in {1, 2, 4, 8, 16, 32, 64, 128} THEN Log2Micro[n] ELSE Log2Micro[n] + 1

\* -p * log2(p) for p = count / totalUsage, times totalUsage, in millionths:
\* a lower and an upper bound
TermLo(count, totalUsage) ==
    LET g == Gcd(count, totalUsage)
    IN count * (Log2Lo(totalUsage \div g) - Log2Hi(count \div g))

TermHi(count, totalUsage) ==
    LET g == Gcd(count, totalUsage)
    IN count * (Log2Hi(totalUsage \div g) - Log2Lo(count \div g))

RECURSIVE SumTerms(_, _, _)
SumTerms(counts, totalUsage, hi) ==
    IF counts = <<>> THEN 0
    ELSE (IF Head(counts) > 0
          THEN IF hi THEN TermHi(Head(counts), totalUsage)
               ELSE TermLo(Head(counts), totalUsage)
          ELSE 0) + SumTerms(Tail(counts), totalUsage, hi)

\* the entropy lies between lo / den and hi / den
Entropy(counts, totalUsage) ==
    IF totalUsage > 0
    THEN [lo |-> SumTerms(counts, totalUsage, FALSE),
          hi |-> SumTerms(counts, totalUsage, TRUE),
          den |-> totalUsage * 1000000]
    ELSE [lo |-> 0, hi |-> 0, den |-> 1]

\* entropy <= bound
EntropyAtMost(e, bound) == e.hi <= bound * e.den

\* the bounds of e tell on which side of bound the entropy lies
EntropyDecided(e, bound) == e.hi <= bound * e.den \/ e.lo > bound * e.den

\* a >= b for fractions with positive denominators
FracAtLeast(a, b) == a.num * b.den >= b.num * a.den

Frac(n, d) == [num |-> n, den |-> d]

\* the part of shouldRunCleanup up to metricsEntry: file is tag-registry.json
Metrics(currentUniqueTags, currentTagUsage, file, t) ==
    LET uniqueCount == Len(currentUniqueTags)
        counts == Values(currentTagUsage)
        totalUsage == SumSeq(counts)
        reg == IF file = <<>> THEN [tags |-> EmptyObj, aliases |-> EmptyObj]
               ELSE JSONParse(file[1])
        existingTags == reg.tags
        existingAliases == reg.aliases
        previousUniqueCount == Len(Keys(existingTags))
        knownTags == {Keys(existingTags)[i] : i \in 1..Len(existingTags)}
                     \cup {Keys(existingAliases)[i] : i \in 1..Len(existingAliases)}
        IsNew(tag) == tag \notin knownTags
        newTagCount == Len(SelectSeq(currentUniqueTags, IsNew))
        growthRate == IF previousUniqueCount > 0
                      THEN Frac(uniqueCount - previousUniqueCount, previousUniqueCount)
                      ELSE IF uniqueCount > 0 THEN Frac(1, 1) ELSE Frac(0, 1)
        newTagRatio == IF uniqueCount > 0 THEN Frac(newTagCount, uniqueCount)
                       ELSE Frac(0, 1)
        IsOne(c) == c = 1
        singleUseCount == Len(SelectSeq(counts, IsOne))
        singleUseRatio == IF uniqueCount > 0 THEN Frac(singleUseCount, uniqueCount)
                          ELSE Frac(0, 1)
    IN [timestamp |-> t,
        previousUniqueTagCount |-> previousUniqueCount,
        uniqueTagCount |-> uniqueCount,
        totalTagUsage |-> totalUsage,
        newTagCount |-> newTagCount,
        growthRate |-> growthRate,
        newTagRatio |-> newTagRatio,
        singleUseRatio |-> singleUseRatio,
        entropy |-> Entropy(counts, totalUsage)]

\* the decision with growth compared by > in place of >=
ShouldRunStrictGrowth(m) ==
    \/ m.growthRate.num * METRIC_THRESHOLDS.growthRate.den >
          METRIC_THRESHOLDS.growthRate.num * m.growthRate.den
    \/ FracAtLeast(m.newTagRatio, METRIC_THRESHOLDS.newTagRatio)
    \/ FracAtLeast(m.singleUseRatio, METRIC_THRESHOLDS.singleUseRatio)
    \/ EntropyAtMost(m.entropy, METRIC_THRESHOLDS.entropy)

\* const shouldRun = ...
ShouldRun(m) ==
    \/ FracAtLeast(m.growthRate, METRIC_THRESHOLDS.growthRate)
    \/ FracAtLeast(m.newTagRatio, METRIC_THRESHOLDS.newTagRatio)
    \/ FracAtLeast(m.singleUseRatio, METRIC_THRESHOLDS.singleUseRatio)
    \/ EntropyAtMost(m.entropy, METRIC_THRESHOLDS.entropy)

\* the history written without reading the entries already there
AppendHistoryOverwrite(file, isArray, metricsEntry) == <<<<metricsEntry>>>>

\* the history written with the new entry in front of the others
AppendHistoryInFront(file, isArray, metricsEntry) ==
    LET history == IF file = <<>> \/ ~isArray THEN <<>> ELSE file[1]
    IN <<<<metricsEntry>> \o history>>

\* the history written to tag-metrics.json: a missing file starts it empty,
\* and so does a text that parses to something other than an array
AppendHistory(file, isArray, metricsEntry) ==
    LET history == IF file = <<>> \/ ~isArray THEN <<>> ELSE file[1]
    IN <<Append(history, metricsEntry)>>

\* shouldRunCleanup: the value returned and tag-metrics.json after the call.
\* A registry text that does not parse is thrown to main.  A history text
\* that does not parse, or a write that fails (writeOk false), is caught and
\* reported on the console: the file stays as it was and the call goes on.
shouldRunCleanup(currentUniqueTags, currentTagUsage, regFile, metFile, kind, writeOk, t) ==
    LET registryMissing == regFile = <<>>
        threw == ~registryMissing /\ kind.registry = "notJSON"
        metricsEntry == Metrics(currentUniqueTags, currentTagUsage, regFile, t)
        persisted == writeOk /\ (metFile = <<>> \/ kind.metrics # "notJSON")
    IN IF threw
       THEN [threw |-> TRUE, result |-> FALSE, registryMissing |-> FALSE,
             metrics |-> <<>>, persisted |-> FALSE, metricsFile |-> metFile]
       ELSE [threw |-> FALSE,
             result |-> IF registryMissing THEN TRUE ELSE ShouldRun(metricsEntry),
             registryMissing |-> registryMissing,
             metrics |-> metricsEntry,
             persisted |-> persisted,
             metricsFile |-> IF persisted
                             THEN AppendHistory(metFile, kind.metrics = "json",
                                                metricsEntry)
                             ELSE metFile]

\* createTagMapping with mapping.set only for a variant not yet mapped
RECURSIVE SetVariantsKeepFirst(_, _, _)
SetVariantsKeepFirst(mapping, variants, canonical) ==
    IF variants = <<>> THEN mapping
    ELSE SetVariantsKeepFirst(IF Head(variants) # canonical /\ ~Has(mapping, Head(variants))
                              THEN MapSet(mapping, Head(variants), canonical)
                              ELSE mapping,
                              Tail(variants), canonical)

\* group.variants.forEach(variant => { if (variant !== group.canonical) ... })
RECURSIVE SetVariants(_, _, _)
SetVariants(mapping, variants, canonical) ==
    IF variants = <<>> THEN mapping
    ELSE SetVariants(IF Head(variants) # canonical
                     THEN MapSet(mapping, Head(variants), canonical)
                     ELSE mapping,
                     Tail(variants), canonical)

RECURSIVE SetGroups(_, _)
SetGroups(mapping, consolidationGroups) ==
    IF consolidationGroups = <<>> THEN mapping
    ELSE SetGroups(SetVariants(mapping, Head(consolidationGroups).variants,
                               Head(consolidationGroups).canonical),
                   Tail(consolidationGroups))

createTagMapping(consolidationGroups) == SetGroups(<<>>, consolidationGroups)

\* the characters of the model in the order of their UTF-16 code units
CodeUnits ==
    <<" ", "!", "&", "-", "0", "1", "2", "3", "4", "5", "6", "7", "8", "9",
      "A", "C", "J", "S",
      "a", "b", "c", "d", "e", "f", "g", "h", "i", "j", "k", "l", "m",
      "n", "o", "p", "q", "r", "s", "t", "u", "v", "w", "x", "y", "z">>

CodeUnitOf ==
    [c \in {CodeUnits[i] : i \in 1..Len(CodeUnits)} |->
        CHOOSE i \in 1..Len(CodeUnits) : CodeUnits[i] = c]

CodeUnit(c) == CodeUnitOf[c]

\* a < b as strings
RECURSIVE StringLess(_, _)
StringLess(a, b) ==
    IF b = <<>> THEN FALSE
    ELSE IF a = <<>> THEN TRUE
    ELSE IF Head(a) = Head(b) THEN StringLess(Tail(a), Tail(b))
    ELSE CodeUnit(Head(a)) < CodeUnit(Head(b))

\* Array.prototype.sort() without a comparator: ascending, stable
RECURSIVE InsertString(_, _)
InsertString(sorted, x) ==
    IF sorted = <<>> THEN <<x>>
    ELSE IF StringLess(x, Head(sorted)) THEN <<x>> \o sorted
         ELSE <<Head(sorted)>> \o InsertString(Tail(sorted), x)

RECURSIVE SortStrings(_)
SortStrings(xs) ==
    IF xs = <<>> THEN <<>>
    ELSE InsertString(SortStrings(SubSeq(xs, 1, Len(xs) - 1)), xs[Len(xs)])

\* .map(tag => tagMapping.get(tag) || tag): the empty string is falsy
MapTags(tags, tagMapping) ==
    [i \in 1..Len(tags) |->
        IF Has(tagMapping, tags[i]) /\ Get(tagMapping, tags[i]) # <<>>
        THEN Get(tagMapping, tags[i])
        ELSE tags[i]]

\* .filter((tag, index, array) => array.indexOf(tag) === index)
RECURSIVE FirstOccurrences(_, _)
FirstOccurrences(array, index) ==
    IF index > Len(array) THEN <<>>
    ELSE (IF \A k \in 1..(index - 1) : array[k] # array[index]
          THEN <<array[index]>> ELSE <<>>)
         \o FirstOccurrences(array, index + 1)

\* the body of the loop of updateBookmarksWithCleanTags for one bookmark:
\* whether it is submitted, the tags submitted (newTags, which newTags.sort()
\* has sorted in place by then) and bookmark.tags as the pass leaves it
\* (bookmark.tags.sort() sorts it in place too)
UpdateTags(tags, tagMapping) ==
    IF tags = <<>> THEN [changed |-> FALSE, newTags |-> <<>>, tags |-> tags]
    ELSE LET newTags == FirstOccurrences(MapTags(tags, tagMapping), 1)
             sortedTags == SortStrings(tags)
             sortedNewTags == SortStrings(newTags)
         IN [changed |-> sortedTags # sortedNewTags,
             newTags |-> sortedNewTags,
             tags |-> sortedTags]

RECURSIVE SumUsage(_, _)
SumUsage(variants, tagUsage) ==
    IF variants = <<>> THEN 0
    ELSE MapGetOr0(tagUsage, Head(variants)) + SumUsage(Tail(variants), tagUsage)

RECURSIVE AddAliases(_, _, _)
AddAliases(aliases, variants, canonical) ==
    IF variants = <<>> THEN aliases
    ELSE AddAliases(IF Head(variants) # canonical
                    THEN Put(aliases, Head(variants), canonical)
                    ELSE aliases,
                    Tail(variants), canonical)

RECURSIVE AddGroups(_, _, _, _)
AddGroups(reg, consolidationGroups, tagUsage, t) ==
    IF consolidationGroups = <<>> THEN reg
    ELSE LET group == Head(consolidationGroups)
         IN AddGroups([reg EXCEPT
                          !.tags = Put(@, group.canonical,
                                       [category |-> "general",
                                        usageCount |-> SumUsage(group.variants, tagUsage),
                                        firstUsed |-> t,
                                        variants |-> <<group.variants>>]),
                          !.aliases = AddAliases(@, group.variants, group.canonical)],
                       Tail(consolidationGroups), tagUsage, t)

\* saveTagRegistry: the text written to tag-registry.json
saveTagRegistry(consolidationGroups, tagUsage, t) ==
    <<JSONStringify(AddGroups(NewRegistry(t), consolidationGroups, tagUsage, t))>>

(***************************************************************************)
(* Inputs: what the tag suggester and the item store hand to the programs  *)
(***************************************************************************)
tJS == <<"J", "S">>
tjs == <<"j", "s">>
tes == <<"e", "s">>
tjavascript == <<"j", "a", "v", "a", "s", "c", "r", "i", "p", "t">>
tjavascripts == tjavascript \o <<"s">>
tJavaScript == <<"J", "a", "v", "a", "S", "c", "r", "i", "p", "t">>
tJavaScriptBang == tJavaScript \o <<"!", "!">>
tconstructor == <<"c", "o", "n", "s", "t", "r", "u", "c", "t", "o", "r">>
tBang == <<"!", "!">>
t21 == <<"2", "1">>
t11 == <<"1", "1">>
t31 == <<"3", "1">>

RawTags == {tJS, tjavascript, tJavaScriptBang, tjavascripts, tconstructor, tBang,
            t21, t11}

Example == <<tJS, tjavascript, tJavaScriptBang>>

AiTagLists == {<<>>} \cup {<<t>> : t \in RawTags} \cup {<<t21, t11>>, Example}

Categories == {"tech"}

Bookmark(tags) == [tags |-> tags]

Group(canonical, variants) == [canonical |-> canonical, variants |-> variants]

SmallCorpora ==
    {<<>>,
     <<Bookmark(<<tjs, tjavascript>>), Bookmark(<<tjs>>)>>,
     <<Bookmark(<<tjs, tes, tjavascript>>), Bookmark(<<>>)>>}

DigitChar(d) == CHOOSE c \in Digits : DigitVal(c) = d

\* the generated tags t001, t002, ...
GateTag(i) ==
    <<"t", DigitChar(i \div 100), DigitChar((i \div 10) % 10), DigitChar(i % 10)>>

\* n tags from the one after shift on: the first single of them used once,
\* the others twice
GateCorpus(n, single, shift) ==
    <<Bookmark([i \in 1..n |-> GateTag(shift + i)]),
      Bookmark([i \in 1..(n - single) |-> GateTag(shift + single + i)])>>

\* with fewer equally used tags than this the entropy cannot exceed the threshold
EntropyFloor == 2 ^ METRIC_THRESHOLDS.entropy

\* the small corpora and the generated ones around the thresholds
GateCorpora ==
    SmallCorpora \cup
    {GateCorpus(n, single, shift) :
        n \in EntropyFloor..MaxCorpusTags, single \in {0, 3}, shift \in {0, 2}}

\* every tag a group of its own
Identity(tags) == [i \in 1..Len(tags) |-> Group(tags[i], <<tags[i]>>)]

\* the first two tags folded into the third
MergeFirst(tags) ==
    IF Len(tags) < 3 THEN Identity(tags)
    ELSE <<Group(tags[3], <<tags[1], tags[2], tags[3]>>)>>
         \o Identity(SubSeq(tags, 4, Len(tags)))

GateSuggestions(tags) == {Identity(tags), MergeFirst(tags)}

Suggestions(tags) ==
    GateSuggestions(tags) \cup
    {<<>>,
     <<Group(tjavascript, <<tjs, tjavascript>>)>>,
     <<Group(tjavascript, <<tjs, tjavascript>>), Group(tjs, <<tjs, tes>>)>>,
     <<Group(tjs, <<tes>>), Group(tjavascript, <<tjs>>)>>,
     <<Group(tJavaScript, <<tjavascript, tJavaScript>>)>>}

(***************************************************************************)
(* The two programs                                                        *)
(***************************************************************************)
NoCall == [op |-> "none", args |-> <<>>, before |-> <<>>, result |-> <<>>]

NoGate == [result |-> FALSE, registryMissing |-> FALSE, metrics |-> <<>>]

NoCorpus == [uniqueTags |-> <<>>, tagUsage |-> <<>>]

\* both files hold what the programs wrote
WellFormed == [registry |-> "json", metrics |-> "json"]

Init ==
    /\ raw = <<>>
    /\ out = <<>>
    /\ registry = NewRegistry(0)
    /\ registryFile = <<>>
    /\ metricsFile = <<>>
    /\ now = 1
    /\ pc = "idle"
    /\ bookmarks = <<>>
    /\ corpus = NoCorpus
    /\ gate = NoGate
    /\ groups = <<>>
    /\ ops = 0
    /\ call = NoCall
    /\ fileKind = WellFormed
    /\ events = <<>>
    /\ left = 0

\* one entry of the run log: a call to a collaborator or to a file, and how
\* it ended
Ev(what, outcome) == [what |-> what, outcome |-> outcome]

\* how loadTags ends on the file
LoadOutcome(file, kind) ==
    IF file = <<>> THEN "created" ELSE IF kind = "notJSON" THEN "corrupt" ELSE "ok"

\* classify.js main up to its loop: fetchAllUnsortedBookmarks returns n
\* bookmarks, then new TagManager() and loadTags.  With no bookmark main
\* returns before it makes the TagManager and nothing changes.
FetchAllUnsortedBookmarks(max) ==
    /\ pc = "idle"
    /\ ops < max
    /\ \E n \in 1..(max - ops) : left' = n
    /\ LET loaded == loadTags(NewRegistry(now), registryFile, fileKind.registry, now)
       IN /\ registry' = loaded.registry
          /\ registryFile' = loaded.file
    /\ events' = <<Ev("fetchAllUnsortedBookmarks", "ok"),
                   Ev("loadTags", LoadOutcome(registryFile, fileKind.registry))>>
    /\ pc' = "classifying"
    /\ now' = now + 1
    /\ call' = [NoCall EXCEPT !.op = "fetchAllUnsortedBookmarks"]
    /\ UNCHANGED <<raw, out, metricsFile, bookmarks, corpus, gate, groups, ops, fileKind>>

\* what the collaborators of one pass of the loop of classify.js main can do:
\* both answer; the suggester rejects (or its answer is no JSON); the item
\* store answers the PUT with a status that is not OK; the PUT rejects; the
\* category has no collection and no PUT is sent
ClassifyOutcomes == {"ok", "suggesterRejects", "updateNotOk", "updateRejects", "noCollection"}

\* classify.js main, one pass of its loop: classifyBookmark, the suggester
\* answering with category and aiTags, then updateBookmark.  Nothing in the
\* loop catches: a rejection reaches main().catch and ends the run.
ClassifyBookmark(tagLists, outcomes) ==
    /\ pc = "classifying"
    /\ \E aiTags \in tagLists, category \in Categories, outcome \in outcomes :
          LET loaded == loadTags(registry, registryFile, fileKind.registry, now)
              done == processAITags(loaded.registry, aiTags, category, now)
              saved == saveTags(done.registry, now)
              answered == outcome # "suggesterRejects"
              aborted == outcome \in {"suggesterRejects", "updateRejects"}
              load == Ev("loadTags", LoadOutcome(registryFile, fileKind.registry))
              put == IF outcome = "updateNotOk" THEN "notOk"
                     ELSE IF outcome = "updateRejects" THEN "rejects"
                     ELSE IF outcome = "noCollection" THEN "skipped" ELSE "ok"
          IN /\ registry' = IF answered THEN saved.registry ELSE loaded.registry
             /\ registryFile' = IF answered THEN saved.file ELSE loaded.file
             /\ fileKind' = IF answered THEN [fileKind EXCEPT !.registry = "json"]
                            ELSE fileKind
             /\ events' = IF answered
                          THEN events \o <<load, Ev("suggester", "ok"),
                                           Ev("processAITags", "ok"),
                                           Ev("saveTags", "ok"),
                                           Ev("updateBookmark", put)>>
                          ELSE events \o <<load, Ev("suggester", "rejects")>>
             /\ call' = IF answered
                        THEN [op |-> "classifyBookmark", args |-> aiTags,
                              before |-> loaded.registry, result |-> done.result]
                        ELSE [NoCall EXCEPT !.op = "classifyBookmarkRejected"]
             /\ pc' = IF aborted \/ left = 1 THEN "idle" ELSE "classifying"
    /\ left' = left - 1
    /\ ops' = ops + 1
    /\ now' = now + 1
    /\ UNCHANGED <<raw, out, metricsFile, bookmarks, corpus, gate, groups>>

\* main, steps 1 and 2: fetchAllBookmarksWithTags and extractAllTags
FetchAllBookmarksWithTags(corpora, max) ==
    /\ pc = "idle"
    /\ ops < max
    /\ \E bs \in corpora :
          /\ bookmarks' = bs
          /\ corpus' = extractAllTags(bs)
    /\ pc' = "fetched"
    /\ ops' = ops + 1
    /\ now' = now + 1
    /\ call' = [NoCall EXCEPT !.op = "fetchAllBookmarksWithTags"]
    /\ events' = <<Ev("fetchAllBookmarksWithTags", "ok")>>
    /\ left' = 0
    /\ UNCHANGED <<raw, out, registry, registryFile, metricsFile, gate, groups, fileKind>>

\* analyzeTagGroups(tags, batchSize = 20)
batchSize == 20

\* the number of passes of the loop of analyzeTagGroups
Batches(tags) == (Len(tags) + batchSize - 1) \div batchSize

\* tags.slice(i, i + batchSize) of the pass that has todo passes to go,
\* itself included
Batch(tags, todo) ==
    IF todo = 0 THEN <<>>
    ELSE LET i == (Batches(tags) - todo) * batchSize
         IN SubSeq(tags, i + 1, Min(i + batchSize, Len(tags)))

\* main with the gate's answer ignored
AfterGateAlwaysRuns(result) == "gated"

\* main: if (!await shouldRunCleanup(...)) process.exit(0)
AfterGate(result) == IF result THEN "gated" ELSE "idle"

\* main: the call of shouldRunCleanup; what it throws ends the run in
\* main().catch
ShouldRunCleanup(writes) ==
    /\ pc = "fetched"
    /\ \E writeOk \in writes :
          \E r \in {shouldRunCleanup(corpus.uniqueTags, corpus.tagUsage, registryFile,
                                     metricsFile, fileKind, writeOk, now)} :
             /\ gate' = IF r.threw THEN NoGate
                        ELSE [result |-> r.result,
                              registryMissing |-> r.registryMissing,
                              metrics |-> r.metrics]
             /\ metricsFile' = r.metricsFile
             /\ fileKind' = IF r.persisted THEN [fileKind EXCEPT !.metrics = "json"]
                            ELSE fileKind
             /\ pc' = IF r.threw THEN "idle" ELSE AfterGate(r.result)
             /\ left' = IF ~r.threw /\ AfterGate(r.result) = "gated"
                        THEN Batches(corpus.uniqueTags) ELSE 0
             /\ events' = Append(events,
                                 Ev("shouldRunCleanup",
                                    IF r.threw THEN "threw"
                                    ELSE IF r.result THEN "true" ELSE "false"))
             /\ call' = [op |-> "shouldRunCleanup", args |-> corpus,
                         before |-> metricsFile,
                         result |-> IF r.threw THEN <<>> ELSE <<r.result>>]
    /\ now' = now + 1
    /\ UNCHANGED <<raw, out, registry, registryFile, bookmarks, corpus, groups, ops>>

\* main, step 3: analyzeTagGroups, one pass of its loop: the suggester
\* answers the batch with the groups gs, or rejects, which nothing catches
\* before main().catch.  For an empty corpus the loop has no pass.
AnalyzeTagGroups(suggestions, outcomes) ==
    /\ pc = "gated"
    /\ \E gs \in suggestions, outcome \in outcomes :
          LET consolidationGroups ==
                  IF left = Batches(corpus.uniqueTags) THEN <<>> ELSE groups
          IN IF left = 0
             THEN /\ groups' = <<>>
                  /\ pc' = "analyzed"
                  /\ events' = events
                  /\ left' = 0
             ELSE IF outcome = "rejects"
             THEN /\ groups' = consolidationGroups
                  /\ pc' = "idle"
                  /\ events' = Append(events, Ev("suggester", "rejects"))
                  /\ left' = left - 1
             ELSE /\ groups' = consolidationGroups \o gs
                  /\ pc' = IF left = 1 THEN "analyzed" ELSE "gated"
                  /\ events' = Append(events, Ev("suggester", "ok"))
                  /\ left' = left - 1
    /\ now' = now + 1
    /\ call' = [NoCall EXCEPT !.op = "analyzeTagGroups"]
    /\ UNCHANGED <<raw, out, registry, registryFile, metricsFile, bookmarks, corpus,
                   gate, ops, fileKind>>

\* main, step 5: "Press Ctrl+C to cancel, or wait 10 seconds to proceed"
CancelRun ==
    /\ pc = "analyzed"
    /\ pc' = "idle"
    /\ now' = now + 1
    /\ call' = [NoCall EXCEPT !.op = "cancel"]
    /\ UNCHANGED <<raw, out, registry, registryFile, metricsFile, bookmarks, corpus,
                   gate, groups, ops, fileKind, events, left>>

\* main, step 6: createTagMapping and updateBookmarksWithCleanTags, the whole
\* loop.  resp is what the item store does with each PUT: "ok", "notOk" (a
\* status that is not OK: reported, the loop goes on) or "rejects" (nothing
\* catches it before main().catch: the run ends there).
UpdateBookmarksWithCleanTags(outcomes) ==
    /\ pc = "analyzed"
    /\ \E tagMapping \in {createTagMapping(groups)} :
       \E updates \in {[i \in 1..Len(bookmarks) |->
                            UpdateTags(bookmarks[i].tags, tagMapping)]} :
       LET IsChanged(i) == updates[i].changed
           puts == SelectSeq([i \in 1..Len(bookmarks) |-> i], IsChanged)
       IN \E resp \in [1..Len(puts) -> outcomes] :
             LET rejected == {j \in 1..Len(puts) : resp[j] = "rejects"}
                 sent == IF rejected = {} THEN Len(puts)
                         ELSE CHOOSE j \in rejected : \A k \in rejected : j <= k
                 reached == IF rejected = {} THEN Len(bookmarks) ELSE puts[sent]
             IN /\ events' = events \o [j \in 1..sent |-> Ev("updateBookmark", resp[j])]
                /\ pc' = IF rejected = {} THEN "updated" ELSE "idle"
                /\ left' = Len(bookmarks) - reached
                /\ bookmarks' = [i \in 1..Len(bookmarks) |->
                                    IF i <= reached
                                    THEN [bookmarks[i] EXCEPT !.tags = updates[i].tags]
                                    ELSE bookmarks[i]]
    /\ call' = [NoCall EXCEPT !.op = "updateBookmarks"]
    /\ UNCHANGED <<raw, out, registry, registryFile, metricsFile, now, corpus, gate,
                   groups, ops, fileKind>>

\* main, step 7: saveTagRegistry
SaveTagRegistry ==
    /\ pc = "updated"
    /\ registryFile' = saveTagRegistry(groups, corpus.tagUsage, now)
    /\ fileKind' = [fileKind EXCEPT !.registry = "json"]
    /\ events' = Append(events, Ev("saveTagRegistry", "ok"))
    /\ pc' = "idle"
    /\ now' = now + 1
    /\ call' = [op |-> "saveTagRegistry", args |-> groups,
                before |-> registryFile, result |-> <<>>]
    /\ UNCHANGED <<raw, out, registry, metricsFile, bookmarks, corpus, gate, groups,
                   ops, left>>

Next ==
    \/ FetchAllUnsortedBookmarks(MaxOps)
    \/ ClassifyBookmark(AiTagLists, {"ok"})
    \/ FetchAllBookmarksWithTags(SmallCorpora, MaxOps)
    \/ ShouldRunCleanup({TRUE})
    \/ AnalyzeTagGroups(Suggestions(Batch(corpus.uniqueTags, left)), {"ok"})
    \/ CancelRun
    \/ UpdateBookmarksWithCleanTags({"ok"})
    \/ SaveTagRegistry

Spec == Init /\ [][Next]_vars

(***************************************************************************)
(* The health gate on generated corpora: cleanup runs alone                *)
(***************************************************************************)
NextGate ==
    \/ FetchAllBookmarksWithTags(GateCorpora, MaxRuns)
    \/ ShouldRunCleanup({TRUE})
    \/ AnalyzeTagGroups(GateSuggestions(Batch(corpus.uniqueTags, left)), {"ok"})
    \/ CancelRun
    \/ UpdateBookmarksWithCleanTags({"ok"})
    \/ SaveTagRegistry

SpecGate == Init /\ [][NextGate]_vars

(***************************************************************************)
(* Ingest alone: classify.js runs from the empty registry                  *)
(***************************************************************************)
taaaaa == Rep("a", 5)

\* a raw tag that normalizeTag cuts at the cap inside a run of hyphens
tPadded == Rep("a", 4) \o Rep("-", MaxTagLen - 4) \o <<"1">>

IngestTagLists ==
    {<<taaaaa>>, <<tPadded>>, <<tjavascript>>, <<tjavascripts>>, <<tJS, tes>>, <<t21, t11>>}

NextIngest ==
    \/ FetchAllUnsortedBookmarks(MaxOps)
    \/ ClassifyBookmark(IngestTagLists, {"ok"})

SpecIngest == Init /\ [][NextIngest]_vars

(***************************************************************************)
(* Both programs with collaborators that fail and files that are damaged   *)
(***************************************************************************)
\* the environment: between two runs the text of a file is damaged, so that
\* JSON.parse rejects it or, for the history, yields something not an array
CorruptFile ==
    /\ pc = "idle"
    /\ \E f \in {"registry", "metrics"}, kind \in {"notJSON", "notArray"} :
          /\ (IF f = "registry" THEN registryFile ELSE metricsFile) # <<>>
          /\ fileKind[f] = "json"
          /\ f = "registry" => kind = "notJSON"
          /\ fileKind' = [fileKind EXCEPT ![f] = kind]
    /\ call' = [NoCall EXCEPT !.op = "corruptFile"]
    /\ UNCHANGED <<raw, out, registry, registryFile, metricsFile, now, pc, bookmarks,
                   corpus, gate, groups, ops, events, left>>

FaultTagLists == {<<tJS>>}

\* a corpus of one batch, which passes the gate's thresholds once it is the
\* registry, and a corpus of two batches; items of both change under MergeFirst
FaultCorpora ==
    {GateCorpus(MaxCorpusTags, 0, 0),
     <<Bookmark([i \in 1..(batchSize + 1) |-> GateTag(i)])>>}

NextFaults ==
    \/ FetchAllUnsortedBookmarks(MaxRuns)
    \/ ClassifyBookmark(FaultTagLists, ClassifyOutcomes)
    \/ FetchAllBookmarksWithTags(FaultCorpora, MaxRuns)
    \/ ShouldRunCleanup(BOOLEAN)
    \/ AnalyzeTagGroups(GateSuggestions(Batch(corpus.uniqueTags, left)),
                        {"ok", "rejects"})
    \/ CancelRun
    \/ UpdateBookmarksWithCleanTags({"ok", "notOk", "rejects"})
    \/ SaveTagRegistry
    \/ CorruptFile

SpecFaults == Init /\ [][NextFaults]_vars

(***************************************************************************)
(* The normalizer on its own                                               *)
(***************************************************************************)
InitNormalize ==
    /\ raw \in RawInputs
    /\ out = <<>>
    /\ registry = NewRegistry(0)
    /\ registryFile = <<>>
    /\ metricsFile = <<>>
    /\ now = 1
    /\ pc = "idle"
    /\ bookmarks = <<>>
    /\ corpus = NoCorpus
    /\ gate = NoGate
    /\ groups = <<>>
    /\ ops = 0
    /\ call = NoCall
    /\ fileKind = WellFormed
    /\ events = <<>>
    /\ left = 0

\* normalizeTag on the raw string, then on what it returned
NormalizeTag ==
    /\ Len(out) < 2
    /\ out' = Append(out, normalizeTag(IF out = <<>> THEN raw ELSE out[1]))
    /\ UNCHANGED <<raw, registry, registryFile, metricsFile, now, pc, bookmarks,
                   corpus, gate, groups, ops, call, fileKind, events, left>>

NextNormalize == NormalizeTag

SpecNormalize == InitNormalize /\ [][NextNormalize]_vars

(***************************************************************************)
(* The mapping on its own: createTagMapping on a list of groups, then the  *)
(* loop body of updateBookmarksWithCleanTags on one item, and once more on *)
(* what the item store holds after that                                    *)
(***************************************************************************)
ItemTags == UNION {[1..n -> {tjs, tes, tjavascript}] : n \in 0..MaxItemTags}

MappingGroups ==
    {<<>>,
     <<Group(tjavascript, <<tjs, tjavascript>>)>>,
     <<Group(tjs, <<tes>>), Group(tjavascript, <<tjs>>)>>,
     <<Group(tjavascript, <<tjs, tjavascript>>), Group(tes, <<tjs, tes>>)>>,
     <<Group(tes, <<tjs>>), Group(tjavascript, <<tjs>>), Group(tjs, <<tjs>>)>>,
     <<Group(<<>>, <<tjs>>)>>}

InitMapping ==
    /\ raw = <<>>
    /\ out = <<>>
    /\ registry = NewRegistry(0)
    /\ registryFile = <<>>
    /\ metricsFile = <<>>
    /\ now = 1
    /\ pc = "idle"
    /\ bookmarks \in {<<Bookmark(tags)>> : tags \in ItemTags}
    /\ corpus = NoCorpus
    /\ gate = NoGate
    /\ groups \in MappingGroups
    /\ ops = 0
    /\ call = NoCall
    /\ fileKind = WellFormed
    /\ events = <<>>
    /\ left = 0

\* the tags the item store holds for the item after the update u of tags
Stored(tags, u) == IF u.changed THEN u.newTags ELSE tags

ApplyMapping ==
    /\ Len(out) < 2
    /\ LET tagMapping == createTagMapping(groups)
           tags == IF out = <<>> THEN bookmarks[1].tags
                   ELSE Stored(bookmarks[1].tags, out[1])
       IN /\ out' = Append(out, UpdateTags(tags, tagMapping))
          /\ call' = [op |-> "updateBookmarksWithCleanTags", args |-> tags,
                      before |-> tagMapping, result |-> <<>>]
    /\ UNCHANGED <<raw, registry, registryFile, metricsFile, now, pc, bookmarks,
                   corpus, gate, groups, ops, fileKind, events, left>>

NextMapping == ApplyMapping

SpecMapping == InitMapping /\ [][NextMapping]_vars

(***************************************************************************)
(* The similarity on its own: every pair of strings of at most MaxKeyLen   *)
(* characters of KeyAlphabet                                               *)
(***************************************************************************)
KeyAlphabet == {"a", "b", "-"}

KeyStrings == UNION {[1..n -> KeyAlphabet] : n \in 0..MaxKeyLen}

InitSimilarity ==
    /\ raw \in KeyStrings \X KeyStrings
    /\ out = <<>>
    /\ registry = NewRegistry(0)
    /\ registryFile = <<>>
    /\ metricsFile = <<>>
    /\ now = 1
    /\ pc = "idle"
    /\ bookmarks = <<>>
    /\ corpus = NoCorpus
    /\ gate = NoGate
    /\ groups = <<>>
    /\ ops = 0
    /\ call = NoCall
    /\ fileKind = WellFormed
    /\ events = <<>>
    /\ left = 0

\* levenshteinDistance and the similarity of findSimilarTags on raw = <<a, b>>,
\* both ways round, and on <<a, a>>
CompareKeys ==
    /\ call.op = "none"
    /\ LET a == raw[1]
           b == raw[2]
       IN /\ call' = [op |-> "similarity", args |-> raw, before |-> <<>>,
                      result |-> <<levenshteinDistance(a, b),
                                   levenshteinDistance(b, a),
                                   levenshteinDistance(a, a)>>]
          /\ out' = <<Similarity(a, b), Similarity(b, a), Similarity(a, a)>>
    /\ UNCHANGED <<raw, registry, registryFile, metricsFile, now, pc, bookmarks,
                   corpus, gate, groups, ops, fileKind, events, left>>

NextSimilarity == CompareKeys

SpecSimilarity == InitSimilarity /\ [][NextSimilarity]_vars

(***************************************************************************)
(* Claims                                                                  *)
(***************************************************************************)

\* C1: normalizeTag is idempotent: normalizing what normalizeTag returned
\* gives it back unchanged, for every raw string, also one whose cleaned form
\* is longer than the cap of 50.
NormalizeIdempotent == Len(out) = 2 => out[2] = out[1]

(***************************************************************************)
(* Vocabulary of the claims                                                *)
(***************************************************************************)
KeySet(o) == {o[i].k : i \in 1..Len(o)}

\* the registries of a state: the one in memory and the one persisted
Registries == {registry} \cup {registryFile[i] : i \in 1..Len(registryFile)}

UsageOf(o, key) == IF Has(o, key) THEN Get(o, key).usageCount ELSE 0

Occurrences(s, x) == Cardinality({i \in 1..Len(s) : s[i] = x})

Elements(s) == {s[i] : i \in 1..Len(s)}

Classified == call.op = "classifyBookmark"

\* shouldRunCleanup has returned a boolean
Gated == call.op = "shouldRunCleanup" /\ call.result # <<>>

Consolidated == call.op = "saveTagRegistry"

\* C2: no string is both a key of registry.aliases and a key of
\* registry.tags, in every registry reached by tag processing on ingest and
\* by consolidation passes.
AliasCanonicalDisjoint ==
    \A reg \in Registries : KeySet(reg.aliases) \cap KeySet(reg.tags) = {}

\* C3: in every registry written by a consolidation pass, each alias points
\* at a key of registry.tags that is not itself an alias (no alias chains).
AliasesOneHop ==
    Consolidated =>
        \A i \in 1..Len(registryFile[1].aliases) :
            LET c == registryFile[1].aliases[i].v
            IN /\ c \in KeySet(registryFile[1].tags)
               /\ c \notin KeySet(registryFile[1].aliases)

\* the canonical keys of reg at least 0.8 similar to key
SimilarKeys(reg, key) ==
    {c \in KeySet(reg.tags) : SimAtLeast(Similarity(key, c), DefaultThreshold)}

\* no key of among is more similar to key than best
IsBestMatch(best, among, key) ==
    \A c \in among : ~SimGreater(Similarity(key, c), Similarity(key, best))

\* C4: processAITags on one raw tag whose normalized key k is non-empty and
\* not a canonical key: with a canonical key at least 0.8 similar to k, the
\* best match gains exactly one use, is the tag emitted, and no key is added;
\* otherwise k becomes a canonical tag with usageCount 1 and is emitted.
BestMatchOrInsert ==
    (Classified /\ Len(call.args) = 1) =>
        LET k == normalizeTag(call.args[1])
            before == call.before.tags
            after == registry.tags
            similar == SimilarKeys(call.before, k)
        IN (k # <<>> /\ k \notin KeySet(before)) =>
              IF similar # {}
              THEN \E best \in similar :
                      /\ IsBestMatch(best, similar, k)
                      /\ UsageOf(after, best) = UsageOf(before, best) + 1
                      /\ call.result = <<best>>
                      /\ KeySet(after) = KeySet(before)
              ELSE /\ KeySet(after) = KeySet(before) \cup {k}
                   /\ UsageOf(after, k) = 1
                   /\ call.result = <<k>>

Candidates == {tjs, tjavascript, tjavascripts, t11, t21, t31}

Thresholds == {DefaultThreshold, [num |-> 1, den |-> 2]}

\* the place of key in the insertion order of o
Position(o, key) == CHOOSE i \in 1..Len(o) : o[i].k = key

\* r lists exactly the keys of reg that differ from candidate and are at
\* least threshold similar to it, by descending similarity, equally similar
\* keys in the order of their insertion
IsSimilarListing(r, reg, candidate, threshold) ==
    /\ Elements([i \in 1..Len(r) |-> r[i].tag]) =
          {c \in KeySet(reg.tags) :
              c # candidate /\ SimAtLeast(Similarity(candidate, c), threshold)}
    /\ \A i, j \in 1..Len(r) : i < j =>
          /\ r[i].tag # r[j].tag
          /\ ~SimGreater(Similarity(candidate, r[j].tag), Similarity(candidate, r[i].tag))
          /\ SimGreater(Similarity(candidate, r[i].tag), Similarity(candidate, r[j].tag))
             \/ Position(reg.tags, r[i].tag) < Position(reg.tags, r[j].tag)

\* C5: findSimilarTags(candidate, threshold) returns exactly the canonical
\* keys other than candidate with similarity at least threshold, by
\* descending similarity, keys of equal similarity in insertion order, also
\* for all-digit keys.
SimilarTagsInInsertionOrder ==
    \A candidate \in Candidates, threshold \in Thresholds :
        IsSimilarListing(findSimilarTags(registry, candidate, threshold),
                         registry, candidate, threshold)

\* C6: the usageCount of a canonical tag of the persisted registry never
\* decreases, whatever operation rewrites the registry.
UsageCountMonotone ==
    [][(registryFile # <<>> /\ registryFile' # <<>>) =>
          \A key \in KeySet(registryFile[1].tags) \cap KeySet(registryFile'[1].tags) :
             UsageOf(registryFile'[1].tags, key) >= UsageOf(registryFile[1].tags, key)]_vars

\* C7: the firstUsed of a canonical tag of the persisted registry never
\* changes, whatever operation rewrites the registry.
FirstUsedImmutable ==
    [][(registryFile # <<>> /\ registryFile' # <<>>) =>
          \A key \in KeySet(registryFile[1].tags) \cap KeySet(registryFile'[1].tags) :
             Get(registryFile'[1].tags, key).firstUsed =
                Get(registryFile[1].tags, key).firstUsed]_vars

NormalizedKeys(aiTags) == {normalizeTag(aiTags[i]) : i \in 1..Len(aiTags)} \ {<<>>}

\* C8: processAITags keeps one record per tag it emits: each emitted key has
\* a record whose usageCount rose by the number of raw tags resolved to it,
\* at most one record is created per distinct normalized key, every other
\* record is unchanged; from the empty registry "JS", "javascript",
\* "JavaScript!!" gives exactly js with usageCount 1 and javascript with 2.
OneRecordPerKey ==
    Classified =>
        LET before == call.before.tags
            after == registry.tags
        IN /\ \A e \in Elements(call.result) :
                 /\ Has(after, e)
                 /\ UsageOf(after, e) = UsageOf(before, e) + Occurrences(call.result, e)
           /\ \A key \in KeySet(before) \ Elements(call.result) :
                 Has(after, key) /\ Get(after, key) = Get(before, key)
           /\ KeySet(after) \ KeySet(before) \subseteq Elements(call.result)
           /\ Cardinality(KeySet(after) \ KeySet(before)) <=
                 Cardinality(NormalizedKeys(call.args))
           /\ (before = <<>> /\ call.args = Example) =>
                 /\ KeySet(after) = {tjs, tjavascript}
                 /\ UsageOf(after, tjs) = 1
                 /\ UsageOf(after, tjavascript) = 2

HistoryOf(file) == IF file = <<>> THEN <<>> ELSE file[1]

\* C9: with no persisted registry snapshot, shouldRunCleanup returns true
\* for every corpus and leaves the persisted metrics history exactly one
\* entry longer.
GateRunsWithoutRegistry ==
    (Gated /\ registryFile = <<>>) =>
        /\ gate.result
        /\ Len(HistoryOf(metricsFile)) = Len(HistoryOf(call.before)) + 1

\* a first gate evaluation, and one after a cancelled run left a history
GateWithoutRegistryReached ==
    /\ Gated
    /\ registryFile = <<>>
    /\ Len(HistoryOf(call.before)) > 0
    /\ corpus.uniqueTags = <<>>

\* the tags of the fetched bookmarks, with repetitions
AllTags == UNION {{<<b, i>> : i \in 1..Len(bookmarks[b].tags)} : b \in 1..Len(bookmarks)}

TagAt(p) == bookmarks[p[1]].tags[p[2]]

CurrentTags == {TagAt(p) : p \in AllTags}

UsesOf(tag) == Cardinality({p \in AllTags : TagAt(p) = tag})

\* the counts of the current tags, in an arbitrary order
RECURSIVE CountsOf(_)
CountsOf(tags) ==
    IF tags = {} THEN <<>>
    ELSE LET t == CHOOSE x \in tags : TRUE
         IN <<UsesOf(t)>> \o CountsOf(tags \ {t})

\* the decision rule as the specification words it
DecisionRule ==
    LET uniqueCount == Cardinality(CurrentTags)
        previousUniqueCount == Cardinality(KeySet(registryFile[1].tags))
        known == KeySet(registryFile[1].tags) \cup KeySet(registryFile[1].aliases)
        newTagCount == Cardinality(CurrentTags \ known)
        singleUse == Cardinality({t \in CurrentTags : UsesOf(t) = 1})
        growth == IF previousUniqueCount = 0
                  THEN uniqueCount > 0
                  ELSE 10 * (uniqueCount - previousUniqueCount) >= previousUniqueCount
        novelty == uniqueCount > 0 /\ 100 * newTagCount >= 15 * uniqueCount
        fragmentation == uniqueCount > 0 /\ 100 * singleUse >= 30 * uniqueCount
        concentration == EntropyAtMost(Entropy(CountsOf(CurrentTags),
                                               Cardinality(AllTags)), 3)
    IN growth \/ novelty \/ fragmentation \/ concentration

\* C10: with a prior registry snapshot, shouldRunCleanup returns true exactly
\* when growthRate >= 0.10 or newTagRatio >= 0.15 or singleUseRatio >= 0.30
\* or entropy <= 3.0.
GateFollowsDecisionRule ==
    (Gated /\ registryFile # <<>>) => (gate.result <=> DecisionRule)

\* the gate has skipped a run: a registry exists and no threshold is met
GateSkipReached == Gated /\ registryFile # <<>> /\ ~gate.result

\* the history that tag-metrics.json holds for a reader that parses it
PersistedHistory ==
    IF metricsFile = <<>> \/ fileKind.metrics # "json" THEN <<>> ELSE metricsFile[1]

\* C11: whenever shouldRunCleanup has returned a boolean, true or false, the
\* persisted metrics history ends with the entry of that evaluation, also
\* when the history file could not be read or written.
GateRecordedBeforeReturn ==
    Gated =>
        /\ PersistedHistory # <<>>
        /\ PersistedHistory[Len(PersistedHistory)] = gate.metrics

IsPrefix(s, r) == Len(s) <= Len(r) /\ SubSeq(r, 1, Len(s)) = s

\* C12: across every call of shouldRunCleanup, whatever tag-metrics.json held
\* before, the persisted history before the call is a prefix of the one after.
HistoryAppendOnly ==
    [][pc = "fetched" => IsPrefix(PersistedHistory, PersistedHistory')]_vars

\* a call that found a history of at least one entry and extended it
HistoryExtended ==
    /\ Gated
    /\ registryFile # <<>>
    /\ call.before # <<>>
    /\ Len(call.before[1]) >= 1
    /\ PersistedHistory = Append(call.before[1], gate.metrics)

\* the positions of the run log at which a registry snapshot failed to parse
FailedLoads ==
    {i \in 1..Len(events) :
        events[i] \in {Ev("loadTags", "corrupt"), Ev("shouldRunCleanup", "threw")}}

\* C17: in either program, once a registry snapshot that exists has failed
\* to parse, the run records no tag and writes no registry checkpoint.
CorruptRegistryIsFatal ==
    \A i \in FailedLoads : \A j \in (i + 1)..Len(events) :
        events[j].what \notin {"processAITags", "saveTags", "saveTagRegistry"}

\* a call to the suggester or an update of the item store has failed in the
\* run: it rejected, or answered with a status that is not OK
CollaboratorFailed ==
    \E i \in 1..Len(events) :
        /\ events[i].what \in {"suggester", "updateBookmark"}
        /\ events[i].outcome \in {"rejects", "notOk"}

\* C18: a run in which a call to the suggester or an update of the item
\* store failed for one item or batch ends with no item or batch of its loop
\* left unprocessed.
RunContinuesAfterFailure ==
    (pc = "idle" /\ CollaboratorFailed) => left = 0

\* the run log is that of cleanup-existing-tags.js
ConsolidationRun ==
    events # <<>> /\ events[1].what = "fetchAllBookmarksWithTags"

\* the positions of the run log at which the gate was evaluated
GateEvaluations == {i \in 1..Len(events) : events[i].what = "shouldRunCleanup"}

\* C19: in a consolidation run the gate is evaluated once, as soon as the
\* corpus is fetched, and every call to the grouping suggester, every update
\* of the item store and every registry write comes after an evaluation that
\* returned true; after one that returned false there is none.
GateOnceBeforeAnyWork ==
    ConsolidationRun =>
        /\ Cardinality(GateEvaluations) = IF pc = "fetched" THEN 0 ELSE 1
        /\ \A j \in 1..Len(events) :
              events[j].what \in {"suggester", "updateBookmark", "saveTagRegistry"} =>
                  \E i \in GateEvaluations :
                      i < j /\ events[i].outcome = "true"
        /\ (\E i \in GateEvaluations : events[i].outcome = "false") =>
              /\ pc = "idle"
              /\ events[Len(events)].what = "shouldRunCleanup"

\* a run that the gate let through to the suggester, to an update of the
\* item store and to the registry write
GatedRunCompleted ==
    /\ ConsolidationRun
    /\ pc = "idle"
    /\ events[2] = Ev("shouldRunCleanup", "true")
    /\ \E j \in 1..Len(events) : events[j].what = "updateBookmark"
    /\ events[Len(events)].what = "saveTagRegistry"

Mapped == call.op = "updateBookmarksWithCleanTags"

\* C13: applying the mapping built from a list of groups to a tag list and
\* then again to the result changes nothing: the second application yields
\* the same tags and does not flag the item as changed.
MappingIdempotent ==
    (Mapped /\ Len(out) = 2) =>
        /\ ~out[2].changed
        /\ MapTags(call.args, call.before) = call.args

\* C14: an item is flagged as changed (and submitted to the item store)
\* exactly when the set of its tags after mapping differs from the set of
\* its tags before, also for tag lists with duplicates.
ChangedIffSetDiffers ==
    Mapped =>
        (out[Len(out)].changed <=>
            Elements(MapTags(call.args, call.before)) # Elements(call.args))

\* each tag replaced by its mapped canonical when the mapping has one
Replaced(tags, tagMapping) ==
    [i \in 1..Len(tags) |->
        IF Has(tagMapping, tags[i]) THEN Get(tagMapping, tags[i]) ELSE tags[i]]

\* r is s without its duplicates, in the order of first occurrence in s
IsDeduplicated(r, s) ==
    /\ Elements(r) = Elements(s)
    /\ \A i, j \in 1..Len(r) : i < j =>
          /\ r[i] # r[j]
          /\ (CHOOSE k \in 1..Len(s) : s[k] = r[i] /\ \A l \in 1..(k - 1) : s[l] # r[i])
             < (CHOOSE k \in 1..Len(s) : s[k] = r[j] /\ \A l \in 1..(k - 1) : s[l] # r[j])

\* C15: the tag list submitted to the item store is the mapped list with
\* duplicates removed, the remaining tags in the order of their first
\* occurrence in the mapped list.
SubmittedInFirstOccurrenceOrder ==
    (Mapped /\ out[Len(out)].changed) =>
        IsDeduplicated(out[Len(out)].newTags, Replaced(call.args, call.before))

\* the groups, by position, in which v is a variant other than the canonical
MappingGroupsOf(v) ==
    {g \in 1..Len(groups) :
        v # groups[g].canonical /\ v \in Elements(groups[g].variants)}

\* the greatest element of a non-empty set of numbers
Last(S) == CHOOSE g \in S : \A h \in S : h <= g

\* C16: createTagMapping maps exactly the variants that differ from their
\* own group's canonical, each to the canonical of the last group in which
\* it is such a variant.
MappingLastWriteWins ==
    Mapped =>
        /\ KeySet(call.before) =
              {v \in UNION {Elements(groups[g].variants) : g \in 1..Len(groups)} :
                  MappingGroupsOf(v) # {}}
        /\ \A v \in KeySet(call.before) :
              Get(call.before, v) = groups[Last(MappingGroupsOf(v))].canonical

\* a variant mapped by two groups to different canonicals, and also listed in
\* a later group as its canonical
VariantMappedTwice ==
    /\ Mapped
    /\ \E v \in KeySet(call.before) :
          /\ \E g, h \in MappingGroupsOf(v) : groups[g].canonical # groups[h].canonical
          /\ \E g \in 1..Len(groups) :
                g > Last(MappingGroupsOf(v)) /\ groups[g].canonical = v

\* C21: every key of registry.tags in the snapshot a consolidation pass finds
\* is, in the snapshot saveTagRegistry writes, a key of registry.tags or a key
\* of registry.aliases.
VocabularyKept ==
    (Consolidated /\ call.before # <<>>) =>
        KeySet(call.before[1].tags) \subseteq
            KeySet(registryFile[1].tags) \cup KeySet(registryFile[1].aliases)

\* C22: from the empty registry, after any sequence of processAITags calls,
\* no two distinct keys of registry.tags are at least 0.8 similar.
NoNearDuplicateKeys ==
    \A reg \in Registries : \A a, b \in KeySet(reg.tags) :
        a # b => ~SimAtLeast(Similarity(a, b), DefaultThreshold)

\* a raw tag cut at the cap, whose key after the cut is exactly 0.8 similar
\* to a canonical key, has been folded into that key
NearDuplicateFolded ==
    /\ Classified
    /\ call.args = <<tPadded>>
    /\ taaaaa \in KeySet(call.before.tags)
    /\ call.result = <<taaaaa>>
    /\ KeySet(registry.tags) = KeySet(call.before.tags)
    /\ Cardinality(KeySet(registry.tags)) >= 2

Compared == call.op = "similarity"

\* two similarities are the same number
SameSimilarity(s, r) == s.den > 0 /\ r.den > 0 /\ s.num * r.den = r.num * s.den

\* C20: similarity is reflexive and symmetric: for every non-empty key a the
\* edit distance from a to a is 0 and the similarity of a to itself is 1;
\* for every pair of keys the edit distance and the similarity are the same
\* both ways round.
SimilarityReflexiveSymmetric ==
    Compared =>
        /\ raw[1] # <<>> =>
              /\ call.result[3] = 0
              /\ SameSimilarity(out[3], [num |-> 1, den |-> 1])
        /\ call.result[1] = call.result[2]
        /\ (raw[1] # <<>> \/ raw[2] # <<>>) => SameSimilarity(out[1], out[2])

\* two different keys of different lengths, more than the difference of the
\* lengths apart, have been compared
DistinctKeysCompared ==
    /\ Compared
    /\ Len(raw[1]) < Len(raw[2])
    /\ raw[1] # <<>>
    /\ call.result[1] > Len(raw[2]) - Len(raw[1])

\* the model's bounds on the entropy tell on which side of the threshold
\* every computed entropy lies
EntropyBoundsDecide ==
    Gated => EntropyDecided(gate.metrics.entropy, METRIC_THRESHOLDS.entropy)

====
